---- MODULE Spec2Model ----
(***************************************************************************)
(* Watch-Server: session registry (heartbeat.py), liveness sweep           *)
(* (heartbeat_checker), connection endpoint (app.py websocket_endpoint)    *)
(* and the role based router (data_handler.py).                            *)
(*                                                                         *)
(* The server runs on one asyncio event loop: a task only loses control at *)
(* an await.  Every action below is one such segment of a task: it resumes *)
(* the await named by pc[c] with one of its outcomes and runs the code up  *)
(* to the next await.                                                      *)
(***************************************************************************)
EXTENDS Integers, Sequences, FiniteSets, TLC

\* ---------------------------------------------------------------- bounds
MaxTime == 300      \* the clock stops advancing here (seconds)

\* ------------------------------------------------------ program constants
SWEEP_PERIOD == 120       \* heartbeat.py: asyncio.sleep(120)
HEARTBEAT_TIMEOUT == 150  \* heartbeat.py: total_seconds() > 150

\* Every execution of websocket_endpoint has its own WebSocket object; the
\* handle of connection c is c.  NoConn is Python's None.
Conns == 1..3
TwoConns == 1..2
NoConn == 0
ClockSteps == {150}
Ids == {"a", "b"}

Absent == "<absent>"      \* a key the JSON object does not carry
NoneStr == "<none>"

\* ------------------------------------------------------------ auth.py
\* users_db: one parent, thirty children (one child stands for them)
users_db == [Perents1511 |-> [sub |-> "Perents1511", role |-> "parent"],
             chaild1     |-> [sub |-> "chaild1", role |-> "child"]]

NoUser == [sub |-> NoneStr, role |-> NoneStr]

\* A token as the fields jwt.decode reads: whether the signature verifies
\* under SECRET_KEY, the "sub" claim and the "exp" claim (seconds).
TokenInputs ==
  { [sig |-> TRUE,  sub |-> "Perents1511", exp |-> MaxTime + 1],
    [sig |-> TRUE,  sub |-> "chaild1",     exp |-> MaxTime + 1],
    [sig |-> FALSE, sub |-> "chaild1",     exp |-> MaxTime + 1],
    [sig |-> TRUE,  sub |-> "chaild1",     exp |-> 0],
    [sig |-> TRUE,  sub |-> "stranger",    exp |-> MaxTime + 1],
    [sig |-> TRUE,  sub |-> Absent,        exp |-> MaxTime + 1] }

\* verify_token that does not look at the blacklist
verify_token_noblacklist(token, blacklist, t) ==
  IF ~token.sig THEN NoUser
  ELSE IF t > token.exp THEN NoUser
  ELSE IF token.sub = Absent THEN NoUser
  ELSE IF token.sub \in DOMAIN users_db THEN users_db[token.sub]
  ELSE NoUser

\* verify_token: None (NoUser) for a blacklisted token, a bad signature, an
\* expired token (jwt.decode raises, or the explicit check), a missing sub,
\* or a sub that users_db does not know.
verify_token(token, blacklist, t) ==
  IF token \in blacklist THEN NoUser
  ELSE IF ~token.sig THEN NoUser
  ELSE IF t > token.exp THEN NoUser
  ELSE IF token.sub = Absent THEN NoUser
  ELSE IF token.sub \in DOMAIN users_db THEN users_db[token.sub]
  ELSE NoUser

\* ------------------------------------------------------- heartbeat.py
\* connected_clients is a dict: its keys keep insertion order, assigning to
\* a present key keeps the key's position.  It is a sequence of entries.
Keys(reg) == { reg[i].id : i \in DOMAIN reg }

Contains(reg, id) == \E i \in DOMAIN reg : reg[i].id = id

IndexOf(reg, id) == CHOOSE i \in DOMAIN reg : reg[i].id = id

Lookup(reg, id) == reg[IndexOf(reg, id)]

DelKey(reg, id) ==
  LET k == IndexOf(reg, id)
  IN  [ i \in 1..(Len(reg) - 1) |-> IF i < k THEN reg[i] ELSE reg[i + 1] ]

\* register_client that adds an entry without looking for the key
register_client_append(reg, client_id, websocket, user_type, t1, t2) ==
  Append(reg, [ id |-> client_id, websocket |-> websocket,
                last_heartbeat |-> t1, connection_time |-> t2,
                user_type |-> user_type ])

\* register_client: t1 and t2 are the two reads of datetime.now()
register_client(reg, client_id, websocket, user_type, t1, t2) ==
  LET entry == [ id |-> client_id, websocket |-> websocket,
                 last_heartbeat |-> t1, connection_time |-> t2,
                 user_type |-> user_type ]
  IN  IF Contains(reg, client_id)
      THEN [ reg EXCEPT ![IndexOf(reg, client_id)] = entry ]
      ELSE Append(reg, entry)

\* remove_client that drops the oldest entry when the key is not there
remove_client_oldest(reg, client_id) ==
  IF Contains(reg, client_id) THEN DelKey(reg, client_id)
  ELSE IF reg # << >> THEN Tail(reg)
  ELSE reg

remove_client(reg, client_id) ==
  IF Contains(reg, client_id) THEN DelKey(reg, client_id) ELSE reg

\* update_heartbeat that creates the key it does not find: an entry with
\* a last_heartbeat and nothing else
update_heartbeat_setdefault(reg, client_id, t) ==
  IF Contains(reg, client_id)
  THEN [ reg EXCEPT ![IndexOf(reg, client_id)].last_heartbeat = t ]
  ELSE Append(reg, [ id |-> client_id, websocket |-> NoConn,
                     last_heartbeat |-> t, connection_time |-> t,
                     user_type |-> NoneStr ])

update_heartbeat(reg, client_id, t) ==
  IF Contains(reg, client_id)
  THEN [ reg EXCEPT ![IndexOf(reg, client_id)].last_heartbeat = t ]
  ELSE reg

\* the scan with >= for >
disconnected_clients_ge(reg, current_time) ==
  SelectSeq(reg, LAMBDA e :
              current_time - e.last_heartbeat >= HEARTBEAT_TIMEOUT)

\* heartbeat_checker, the scan: the ids whose elapsed time exceeds the
\* timeout, in dict order
disconnected_clients(reg, current_time) ==
  SelectSeq(reg, LAMBDA e :
              current_time - e.last_heartbeat > HEARTBEAT_TIMEOUT)

RECURSIVE DeleteAll(_, _)
DeleteAll(reg, dead) ==
  IF dead = << >> THEN reg
  ELSE DeleteAll(IF Contains(reg, Head(dead).id)
                 THEN DelKey(reg, Head(dead).id) ELSE reg,
                 Tail(dead))

\* a sweep that deletes while it scans: the dict changes size under the
\* iteration, which ends the pass after the first deletion
sweep_inplace(reg, current_time) ==
  LET dead == disconnected_clients(reg, current_time)
  IN  IF dead = << >> THEN reg ELSE DelKey(reg, Head(dead).id)

\* one pass of the loop body of heartbeat_checker after the sleep
sweep(reg, current_time) ==
  DeleteAll(reg, disconnected_clients(reg, current_time))

\* ------------------------------------------------------ inbound text
\* A text frame as json.loads sees it: not JSON at all ("invalid"), JSON
\* that is no object ("array"), or an object with the keys the handlers
\* read (Absent: the object has no such key).
NoToken == [sig |-> FALSE, sub |-> Absent, exp |-> 0]

Text(syntax, token, type, command, target_child, payload) ==
  [ syntax |-> syntax, token |-> token, type |-> type, command |-> command,
    target_child |-> target_child, payload |-> payload ]

InvalidText == Text("invalid", NoToken, Absent, Absent, Absent, Absent)
ArrayText == Text("array", NoToken, Absent, Absent, Absent, Absent)
NoText == Text("none", NoToken, Absent, Absent, Absent, Absent)

AuthTexts ==
  { Text("object", t, Absent, Absent, Absent, Absent) :
      t \in TokenInputs \cup {NoToken} } \cup {InvalidText, ArrayText}

TypeInputs == {"heartbeat", "camera", "bogus", Absent}
TargetInputs == Ids \cup {"", Absent}

ChildTexts ==
  { Text("object", NoToken, t, Absent, Absent, "p") : t \in TypeInputs }
    \cup {InvalidText, ArrayText}

ParentTexts ==
  { Text("object", NoToken, Absent, "snapshot", t, "p") : t \in TargetInputs }
    \cup {InvalidText, ArrayText}

\* dict.get(key, default)
Get(value, default) == IF value = Absent THEN default ELSE value

\* ----------------------------------------------------- outbound frames
\* One record shape for every frame the server sends; f-strings are the
\* tuples of their parts.
Frame(status, type, from, command, payload, message, timestamp) ==
  [ status |-> status, type |-> type, from |-> from, command |-> command,
    payload |-> payload, message |-> message, timestamp |-> timestamp ]

\* datetime.isoformat(): the text of a time; << >> where a frame has none
isoformat(t) == << t >>
NoTime == << >>
NoFrame == Frame(Absent, << >>, Absent, Absent, Absent, << >>, NoTime)

\* app.py 116-122
ConnectedFrame(cid, ut) ==
  Frame("connected", << >>, Absent, Absent, Absent,
        << "Connection established successfully", cid, ut >>, NoTime)

\* data_handler.py 29, 34
AckFrame(data_type) ==
  Frame("success", << data_type, "_ack" >>, Absent, Absent, Absent, << >>,
        NoTime)

\* data_handler.py 39
UnknownTypeFrame(data_type) ==
  Frame("error", << >>, Absent, Absent, Absent,
        << "Unknown data type: ", data_type >>, NoTime)

\* data_handler.py 44
ProcessingErrorFrame ==
  Frame("error", << >>, Absent, Absent, Absent, << "Processing error: " >>,
        NoTime)

\* data_handler.py 64
NoTargetFrame ==
  Frame("error", << >>, Absent, Absent, Absent,
        << "Target child not specified" >>, NoTime)

\* data_handler.py 71-76
CommandFrame(command, payload, t) ==
  Frame(Absent, << "command" >>, Absent, command, payload, << >>,
        isoformat(t))

\* data_handler.py 81-85
CommandSentFrame(command, target_child) ==
  Frame("success", << >>, Absent, command, Absent,
        << "Command ", command, " sent to ", target_child >>, NoTime)

\* data_handler.py 89-92
TargetNotFoundFrame(target_child) ==
  Frame("error", << >>, Absent, Absent, Absent,
        << "Target child ", target_child, " not found or offline" >>, NoTime)

\* data_handler.py 97-100
CommandErrorFrame ==
  Frame("error", << >>, Absent, Absent, Absent,
        << "Error executing command: " >>, NoTime)

\* data_handler.py 119-124
ForwardFrame(data_type, child_id, payload, t) ==
  Frame(Absent, << data_type >>, child_id, Absent, payload, << >>,
        isoformat(t))

KnownTypes ==
  {"camera", "microphone", "screen", "directory", "files", "location"}

\* a pending send_text: the handle it is called on and the frame
Send(to, frame) == [ to |-> to, frame |-> frame ]
NoSend == Send(NoConn, NoFrame)

\* forward_to_parent 112-116: the first entry, in dict order, whose
\* user_type is 'parent'
ParentIndexes(reg) == { i \in DOMAIN reg : reg[i].user_type = "parent" }

HasParent(reg) == ParentIndexes(reg) # {}

FirstParent(reg) ==
  reg[CHOOSE i \in ParentIndexes(reg) : \A j \in ParentIndexes(reg) : i <= j]

VARIABLES
  connected_clients,  \* heartbeat.py: the registry
  token_blacklist,    \* auth.py: the revoked tokens
  now,                \* datetime.now()
  sweepDue,           \* the time the sweep's asyncio.sleep(120) returns
  pc,                 \* per connection: the await its task is suspended at
  client_id,          \* per connection: the path parameter
  user_type,          \* per connection: user['role'] after authentication
  auth_token,         \* per connection: auth_data.get('token')
  open,               \* per connection: the peer still holds the socket
  pend,               \* per connection: the send_text it is suspended in
  cur,                \* per connection: the inbound frame being handled
  sent,               \* per connection: the send_text calls that returned
                      \* or raised while handling cur, in order
  regCalled,          \* per connection: register_client was reached
  remCalled,          \* per connection: remove_client was called
  exit,               \* per connection: how websocket_endpoint ended
  lastReg             \* per id: the handle of the latest register_client

vars == << connected_clients, token_blacklist, now, sweepDue, pc, client_id,
           user_type, auth_token, open, pend, cur, sent, regCalled,
           remCalled, exit, lastReg >>

\* what the router saw when it took the frame: the text, the handles of the
\* parent entries and the handle of the entry the command targets
Cur(text, parents, target) ==
  [ text |-> text, parents |-> parents, target |-> target ]

NoCur == Cur(NoText, {}, NoConn)

Init ==
  /\ connected_clients = << >>
  /\ token_blacklist = {}
  /\ now = 0
  /\ sweepDue = SWEEP_PERIOD
  /\ pc = [ c \in Conns |-> "idle" ]
  /\ client_id = [ c \in Conns |-> Absent ]
  /\ user_type = [ c \in Conns |-> NoneStr ]
  /\ auth_token = [ c \in Conns |-> NoToken ]
  /\ open = [ c \in Conns |-> FALSE ]
  /\ pend = [ c \in Conns |-> NoSend ]
  /\ cur = [ c \in Conns |-> NoCur ]
  /\ sent = [ c \in Conns |-> << >> ]
  /\ regCalled = [ c \in Conns |-> FALSE ]
  /\ remCalled = [ c \in Conns |-> FALSE ]
  /\ exit = [ c \in Conns |-> NoneStr ]
  /\ lastReg = [ i \in Ids |-> NoConn ]

\* ------------------------------------------------- data_handler.py
\* A step of a handler: the await it stops at next ("recv": it returned to
\* the read loop, "raise": an exception left it) and the send it waits in.
Step(at, send) == [ at |-> at, send |-> send ]

\* forward_to_parent that labels the frame with the parent's id
forward_to_parent_from(reg, child_id, data_type, payload, t) ==
  IF HasParent(reg)
  THEN Send(FirstParent(reg).websocket,
            ForwardFrame(data_type, FirstParent(reg).id, payload, t))
  ELSE NoSend

\* forward_to_parent up to its await: the send to the first parent, or none
forward_to_parent(reg, child_id, data_type, payload, t) ==
  IF HasParent(reg)
  THEN Send(FirstParent(reg).websocket,
            ForwardFrame(data_type, child_id, payload, t))
  ELSE NoSend

\* handle_data_reception that reports a missing parent as an error
handle_data_reception_noparent(reg, websocket, cid, data, t) ==
  IF data.syntax # "object"
  THEN Step("errack", Send(websocket, ProcessingErrorFrame))
  ELSE LET data_type == Get(data.type, "unknown")
           payload == Get(data.payload, "{}")
       IN  IF data_type = "heartbeat"
           THEN Step("ack", Send(websocket, AckFrame("heartbeat")))
           ELSE IF data_type \in KnownTypes
           THEN LET fwd == forward_to_parent(reg, cid, data_type, payload, t)
                IN  IF fwd # NoSend
                    THEN Step("fwd", fwd)
                    ELSE Step("ack", Send(websocket, ProcessingErrorFrame))
           ELSE Step("ack", Send(websocket, UnknownTypeFrame(data_type)))

\* handle_data_reception that acknowledges every type it does not forward
handle_data_reception_ackall(reg, websocket, cid, data, t) ==
  IF data.syntax # "object"
  THEN Step("errack", Send(websocket, ProcessingErrorFrame))
  ELSE LET data_type == Get(data.type, "unknown")
           payload == Get(data.payload, "{}")
       IN  IF data_type \in KnownTypes
           THEN LET fwd == forward_to_parent(reg, cid, data_type, payload, t)
                IN  IF fwd # NoSend
                    THEN Step("fwd", fwd)
                    ELSE Step("ack", Send(websocket, AckFrame(data_type)))
           ELSE Step("ack", Send(websocket, AckFrame(data_type)))

\* handle_data_reception that turns away a sender whose id is no key
handle_data_reception_registered(reg, websocket, cid, data, t) ==
  IF data.syntax # "object" \/ ~Contains(reg, cid)
  THEN Step("errack", Send(websocket, ProcessingErrorFrame))
  ELSE LET data_type == Get(data.type, "unknown")
           payload == Get(data.payload, "{}")
       IN  IF data_type = "heartbeat"
           THEN Step("ack", Send(websocket, AckFrame("heartbeat")))
           ELSE IF data_type \in KnownTypes
           THEN LET fwd == forward_to_parent(reg, cid, data_type, payload, t)
                IN  IF fwd # NoSend
                    THEN Step("fwd", fwd)
                    ELSE Step("ack", Send(websocket, AckFrame(data_type)))
           ELSE Step("ack", Send(websocket, UnknownTypeFrame(data_type)))

\* handle_data_reception from its call to its first await; update_heartbeat
\* has run before data.get can raise on a non-object
handle_data_reception(reg, websocket, cid, data, t) ==
  IF data.syntax # "object"
  THEN Step("errack", Send(websocket, ProcessingErrorFrame))
  ELSE LET data_type == Get(data.type, "unknown")
           payload == Get(data.payload, "{}")
       IN  IF data_type = "heartbeat"
           THEN Step("ack", Send(websocket, AckFrame("heartbeat")))
           ELSE IF data_type \in KnownTypes
           THEN LET fwd == forward_to_parent(reg, cid, data_type, payload, t)
                IN  IF fwd # NoSend
                    THEN Step("fwd", fwd)
                    ELSE Step("ack", Send(websocket, AckFrame(data_type)))
           ELSE Step("ack", Send(websocket, UnknownTypeFrame(data_type)))

\* the resumption with a forward_to_parent that lets the exception of its
\* send out, into the except clause of handle_data_reception
data_reception_resume_raise(at, ok, websocket, data) ==
  CASE at = "fwd" ->
         IF ok
         THEN Step("ack", Send(websocket, AckFrame(Get(data.type, "unknown"))))
         ELSE Step("errack", Send(websocket, ProcessingErrorFrame))
    [] at = "ack" ->
         IF ok THEN Step("recv", NoSend)
         ELSE Step("errack", Send(websocket, ProcessingErrorFrame))
    [] at = "errack" ->
         IF ok THEN Step("recv", NoSend) ELSE Step("raise", NoSend)

\* handle_data_reception resumed from the await `at` whose send_text
\* returned (ok) or raised
data_reception_resume(at, ok, websocket, data) ==
  CASE at = "fwd" ->
         \* forward_to_parent swallows the exception of its send
         Step("ack", Send(websocket, AckFrame(Get(data.type, "unknown"))))
    [] at = "ack" ->
         IF ok THEN Step("recv", NoSend)
         ELSE Step("errack", Send(websocket, ProcessingErrorFrame))
    [] at = "errack" ->
         IF ok THEN Step("recv", NoSend) ELSE Step("raise", NoSend)

\* handle_parent_command that only addresses entries of user_type 'child'
handle_parent_command_role(reg, websocket, cid, data, t) ==
  IF data.syntax # "object"
  THEN Step("errack", Send(websocket, CommandErrorFrame))
  ELSE LET command == Get(data.command, "unknown")
           target_child == Get(data.target_child, "")
           payload == Get(data.payload, "{}")
       IN  IF target_child = ""
           THEN Step("ack", Send(websocket, NoTargetFrame))
           ELSE IF /\ Contains(reg, target_child)
                   /\ Lookup(reg, target_child).user_type = "child"
           THEN Step("cmd", Send(Lookup(reg, target_child).websocket,
                                 CommandFrame(command, payload, t)))
           ELSE Step("ack", Send(websocket, TargetNotFoundFrame(target_child)))

\* handle_parent_command that falls back to the first entry of the registry
\* when the target is not a key
handle_parent_command_fallback(reg, websocket, cid, data, t) ==
  IF data.syntax # "object"
  THEN Step("errack", Send(websocket, CommandErrorFrame))
  ELSE LET command == Get(data.command, "unknown")
           target_child == Get(data.target_child, "")
           payload == Get(data.payload, "{}")
       IN  IF target_child = ""
           THEN Step("ack", Send(websocket, NoTargetFrame))
           ELSE IF Contains(reg, target_child)
           THEN Step("cmd", Send(Lookup(reg, target_child).websocket,
                                 CommandFrame(command, payload, t)))
           ELSE IF reg # << >>
           THEN Step("cmd", Send(reg[1].websocket,
                                 CommandFrame(command, payload, t)))
           ELSE Step("ack", Send(websocket, TargetNotFoundFrame(target_child)))

\* handle_parent_command from its call to its first await
handle_parent_command(reg, websocket, cid, data, t) ==
  IF data.syntax # "object"
  THEN Step("errack", Send(websocket, CommandErrorFrame))
  ELSE LET command == Get(data.command, "unknown")
           target_child == Get(data.target_child, "")
           payload == Get(data.payload, "{}")
       IN  IF target_child = ""
           THEN Step("ack", Send(websocket, NoTargetFrame))
           ELSE IF Contains(reg, target_child)
           THEN Step("cmd", Send(Lookup(reg, target_child).websocket,
                                 CommandFrame(command, payload, t)))
           ELSE Step("ack", Send(websocket, TargetNotFoundFrame(target_child)))

\* the resumption without the except clause: the exception of the send to
\* the target leaves handle_parent_command
parent_command_resume_raise(at, ok, websocket, data) ==
  CASE at = "cmd" ->
         IF ok
         THEN Step("ack", Send(websocket,
                     CommandSentFrame(Get(data.command, "unknown"),
                                      Get(data.target_child, ""))))
         ELSE Step("raise", NoSend)
    [] at = "ack" ->
         IF ok THEN Step("recv", NoSend)
         ELSE Step("errack", Send(websocket, CommandErrorFrame))
    [] at = "errack" ->
         IF ok THEN Step("recv", NoSend) ELSE Step("raise", NoSend)

\* handle_parent_command resumed from the await `at`
parent_command_resume(at, ok, websocket, data) ==
  CASE at = "cmd" ->
         IF ok
         THEN Step("ack", Send(websocket,
                     CommandSentFrame(Get(data.command, "unknown"),
                                      Get(data.target_child, ""))))
         ELSE Step("errack", Send(websocket, CommandErrorFrame))
    [] at = "ack" ->
         IF ok THEN Step("recv", NoSend)
         ELSE Step("errack", Send(websocket, CommandErrorFrame))
    [] at = "errack" ->
         IF ok THEN Step("recv", NoSend) ELSE Step("raise", NoSend)

\* ------------------------------------------------------------ app.py
\* send_text on handle h returns (TRUE) while the peer holds the socket;
\* once the peer is gone it raises (FALSE) or the frame is dropped without
\* an error, as the ASGI server in use has it
SendOutcomes(h) == IF open[h] THEN {TRUE} ELSE {TRUE, FALSE}

Sent(send, ok) == [ to |-> send.to, frame |-> send.frame, ok |-> ok ]

InHandler == {"fwd", "cmd", "ack", "errack"}

\* websocket_endpoint returns: no further await of this task, its locals
\* are gone
Finish(c, how) ==
  /\ pc' = [ pc EXCEPT ![c] = "done" ]
  /\ exit' = [ exit EXCEPT ![c] = how ]
  /\ open' = [ open EXCEPT ![c] = FALSE ]
  /\ pend' = [ pend EXCEPT ![c] = NoSend ]
  /\ cur' = [ cur EXCEPT ![c] = NoCur ]
  /\ sent' = [ sent EXCEPT ![c] = << >> ]
  /\ client_id' = [ client_id EXCEPT ![c] = Absent ]
  /\ user_type' = [ user_type EXCEPT ![c] = NoneStr ]
  /\ auth_token' = [ auth_token EXCEPT ![c] = NoToken ]

\* a client connects to /ws/{id}; accept() (91) returns and the task waits
\* for the first frame (94).  A task waiting there touches nothing shared,
\* so connections are taken in index order, one handshake at a time, and
\* the first one is given the id "a" (the ids are interchangeable).
Connect(c, id) ==
  /\ pc[c] = "idle"
  /\ \A d \in Conns : d < c => pc[d] \notin {"idle", "auth", "policy_close"}
  /\ c = 1 => id = "a"
  /\ pc' = [ pc EXCEPT ![c] = "auth" ]
  /\ client_id' = [ client_id EXCEPT ![c] = id ]
  /\ open' = [ open EXCEPT ![c] = TRUE ]
  /\ UNCHANGED << connected_clients, token_blacklist, now, sweepDue,
                  user_type, auth_token, pend, cur, sent, regCalled,
                  remCalled,
                  exit, lastReg >>

\* the peer closes or loses its socket; the task learns of it at its next
\* receive_text or send_text
ClientClose(c) ==
  /\ pc[c] \notin {"idle", "done"}
  /\ open[c]
  /\ open' = [ open EXCEPT ![c] = FALSE ]
  /\ UNCHANGED << connected_clients, token_blacklist, now, sweepDue, pc,
                  client_id, user_type, auth_token, pend, cur, sent,
                  regCalled,
                  remCalled, exit, lastReg >>

\* 94: receive_text raises before the token arrives; outer except (143-148)
AuthDisconnect(c) ==
  /\ pc[c] = "auth"
  /\ ~open[c]
  /\ Finish(c, "outer_except")
  /\ UNCHANGED << connected_clients, token_blacklist, now, sweepDue,
                  regCalled, remCalled, lastReg >>

\* 94-122: the first frame arrives; gap is the time between the two clock
\* reads of register_client
AuthRecv(c, text, gap) ==
  /\ pc[c] = "auth"
  /\ open[c]
  /\ now + gap <= MaxTime
  /\ LET user == verify_token(text.token, token_blacklist, now)
     IN  IF text.syntax # "object"
         THEN \* json.loads or auth_data.get raises: outer except
              /\ gap = 0
              /\ Finish(c, "outer_except")
              /\ UNCHANGED << connected_clients, now, regCalled, lastReg >>
         ELSE IF text.token = NoToken \/ user = NoUser
         THEN \* 98-99, 104-105: await websocket.close(code=1008)
              /\ gap = 0
              /\ pc' = [ pc EXCEPT ![c] = "policy_close" ]
              /\ auth_token' = [ auth_token EXCEPT ![c] = text.token ]
              /\ UNCHANGED << connected_clients, now, regCalled, lastReg,
                              open, exit, pend, cur, sent, client_id,
                              user_type >>
         ELSE /\ connected_clients' =
                   register_client(connected_clients, client_id[c], c,
                                   user.role, now, now + gap)
              /\ now' = now + gap
              /\ user_type' = [ user_type EXCEPT ![c] = user.role ]
              /\ auth_token' = [ auth_token EXCEPT ![c] = text.token ]
              /\ regCalled' = [ regCalled EXCEPT ![c] = TRUE ]
              /\ lastReg' = [ lastReg EXCEPT ![client_id[c]] = c ]
              /\ pc' = [ pc EXCEPT ![c] = "confirm" ]
              /\ pend' = [ pend EXCEPT ![c] =
                             Send(c, ConnectedFrame(client_id[c], user.role)) ]
              /\ UNCHANGED << open, exit, cur, sent, client_id >>
  /\ UNCHANGED << token_blacklist, sweepDue, remCalled >>

\* 99, 105 resumed: close(code=1008) returned and the endpoint returns
\* (100, 106), or it raised and the outer except (143-148) takes over
CloseDone(c, ok) ==
  /\ pc[c] = "policy_close"
  /\ ok \in SendOutcomes(c)
  /\ Finish(c, IF ok THEN "policy_violation" ELSE "outer_except")
  /\ UNCHANGED << connected_clients, token_blacklist, now, sweepDue,
                  regCalled, remCalled, lastReg >>

\* 116-122 resumed: the confirmation was sent, or send_text raised and the
\* outer except (143-148) closes the socket
ConfirmDone(c, ok) ==
  /\ pc[c] = "confirm"
  /\ ok \in SendOutcomes(c)
  /\ IF ok
     THEN /\ pc' = [ pc EXCEPT ![c] = "recv" ]
          /\ pend' = [ pend EXCEPT ![c] = NoSend ]
          /\ UNCHANGED << open, exit, cur, sent, client_id, user_type,
                          auth_token >>
     ELSE Finish(c, "outer_except")
  /\ UNCHANGED << connected_clients, token_blacklist, now, sweepDue,
                  regCalled, remCalled, lastReg >>

\* the read loop ends in one of its except clauses (136-141)
LoopExit(c, how) ==
  /\ connected_clients' = remove_client(connected_clients, client_id[c])
  /\ remCalled' = [ remCalled EXCEPT ![c] = TRUE ]
  /\ Finish(c, how)

\* 127: receive_text raises WebSocketDisconnect
RecvDisconnect(c) ==
  /\ pc[c] = "recv"
  /\ ~open[c]
  /\ LoopExit(c, "disconnect")
  /\ UNCHANGED << token_blacklist, now, sweepDue, regCalled, lastReg >>

\* 127-134: a frame arrives and runs to the handler's first await.  A
\* suspended handler reads nothing shared when it resumes and writes
\* nothing shared but the remove_client of a failed read loop, which
\* RecvDisconnect does as well; so one handler is in flight at a time.
RecvFrame(c, text) ==
  /\ pc[c] = "recv"
  /\ open[c]
  /\ text \in (IF user_type[c] = "child" THEN ChildTexts ELSE ParentTexts)
  /\ \A d \in Conns : pc[d] \notin InHandler
  /\ LET reg == update_heartbeat(connected_clients, client_id[c], now)
         step == IF user_type[c] = "child"
                 THEN handle_data_reception(reg, c, client_id[c], text, now)
                 ELSE handle_parent_command(reg, c, client_id[c], text, now)
         target == Get(text.target_child, "")
     IN  IF text.syntax = "invalid"
         THEN \* 128: json.loads raises, 139-141
              LoopExit(c, "loads_raised")
         ELSE /\ connected_clients' = reg
              /\ cur' = [ cur EXCEPT ![c] =
                            Cur(text,
                                { reg[i].websocket : i \in ParentIndexes(reg) },
                                IF Contains(reg, target)
                                THEN Lookup(reg, target).websocket
                                ELSE NoConn) ]
              /\ pc' = [ pc EXCEPT ![c] = step.at ]
              /\ pend' = [ pend EXCEPT ![c] = step.send ]
              /\ UNCHANGED << open, exit, remCalled, sent, client_id,
                              user_type, auth_token >>
  /\ UNCHANGED << token_blacklist, now, sweepDue, regCalled, lastReg >>

\* a send_text of a handler returns or raises and the handler runs on to
\* its next await, back to the read loop, or out of it with the exception
SendDone(c, ok) ==
  /\ pc[c] \in InHandler
  /\ ok \in SendOutcomes(pend[c].to)
  /\ LET step == IF user_type[c] = "child"
                 THEN data_reception_resume(pc[c], ok, c, cur[c].text)
                 ELSE parent_command_resume(pc[c], ok, c, cur[c].text)
     IN  CASE step.at = "raise" -> LoopExit(c, "error")
           [] step.at = "recv" ->
                \* the handler returned: the loop awaits the next frame
                /\ pc' = [ pc EXCEPT ![c] = "recv" ]
                /\ pend' = [ pend EXCEPT ![c] = NoSend ]
                /\ cur' = [ cur EXCEPT ![c] = NoCur ]
                /\ sent' = [ sent EXCEPT ![c] = << >> ]
                /\ UNCHANGED << connected_clients, open, exit, remCalled,
                                client_id, user_type, auth_token >>
           [] OTHER ->
                /\ pc' = [ pc EXCEPT ![c] = step.at ]
                /\ pend' = [ pend EXCEPT ![c] = step.send ]
                /\ sent' = [ sent EXCEPT ![c] =
                               Append(sent[c], Sent(pend[c], ok)) ]
                /\ UNCHANGED << connected_clients, open, exit, remCalled,
                                cur, client_id, user_type, auth_token >>
  /\ UNCHANGED << token_blacklist, now, sweepDue, regCalled, lastReg >>

\* app.py 179-186
LogoutInputs == { t \in TokenInputs : t.sig /\ t.sub = "chaild1" /\ t.exp > 0 }

Logout(token) ==
  /\ token \notin token_blacklist
  /\ token_blacklist' = token_blacklist \cup {token}
  /\ UNCHANGED << connected_clients, now, sweepDue, pc, client_id, user_type,
                  auth_token, open, pend, cur, sent, regCalled, remCalled, exit,
                  lastReg >>

\* heartbeat.py 17-30: the sleep is over; scan, delete, sleep again
Tick ==
  /\ now >= sweepDue
  /\ connected_clients' = sweep(connected_clients, now)
  /\ sweepDue' = now + SWEEP_PERIOD
  /\ UNCHANGED << token_blacklist, now, pc, client_id, user_type,
                  auth_token,
                  open, pend, cur, sent, regCalled, remCalled, exit, lastReg >>

\* time passes
AdvanceClock(d) ==
  /\ now + d <= MaxTime
  /\ now' = now + d
  /\ UNCHANGED << connected_clients, token_blacklist, sweepDue, pc,
                  client_id, user_type, auth_token, open, pend, cur, sent,
                  regCalled, remCalled, exit, lastReg >>

\* two connections, the sweep and the clock
Next ==
  \/ \E c \in TwoConns, id \in Ids : Connect(c, id)
  \/ \E c \in TwoConns : ClientClose(c)
  \/ \E c \in TwoConns : AuthDisconnect(c)
  \/ \E c \in TwoConns, text \in AuthTexts, gap \in {0} \cup ClockSteps :
       AuthRecv(c, text, gap)
  \/ \E c \in TwoConns, ok \in BOOLEAN : CloseDone(c, ok)
  \/ \E c \in TwoConns, ok \in BOOLEAN : ConfirmDone(c, ok)
  \/ \E c \in TwoConns : RecvDisconnect(c)
  \/ \E c \in TwoConns, text \in ChildTexts \cup ParentTexts :
       RecvFrame(c, text)
  \/ \E c \in TwoConns, ok \in BOOLEAN : SendDone(c, ok)
  \/ Tick
  \/ \E d \in ClockSteps : AdvanceClock(d)

Spec == Init /\ [][Next]_vars

\* three connections (two controllers and an agent fit), the clock at rest
NextThree ==
  \/ \E c \in Conns, id \in Ids : Connect(c, id)
  \/ \E c \in Conns : ClientClose(c)
  \/ \E c \in Conns : AuthDisconnect(c)
  \/ \E c \in Conns, text \in AuthTexts : AuthRecv(c, text, 0)
  \/ \E c \in Conns, ok \in BOOLEAN : CloseDone(c, ok)
  \/ \E c \in Conns, ok \in BOOLEAN : ConfirmDone(c, ok)
  \/ \E c \in Conns : RecvDisconnect(c)
  \/ \E c \in Conns, text \in ChildTexts \cup ParentTexts : RecvFrame(c, text)
  \/ \E c \in Conns, ok \in BOOLEAN : SendDone(c, ok)

SpecThree == Init /\ [][NextThree]_vars

\* the handshake, the logout endpoint and the clock: two connections up to
\* the read loop, no frames after the first
NextAuth ==
  \/ \E c \in TwoConns, id \in Ids : Connect(c, id)
  \/ \E c \in TwoConns : ClientClose(c)
  \/ \E c \in TwoConns : AuthDisconnect(c)
  \/ \E c \in TwoConns, text \in AuthTexts : AuthRecv(c, text, 0)
  \/ \E c \in TwoConns, ok \in BOOLEAN : CloseDone(c, ok)
  \/ \E c \in TwoConns, ok \in BOOLEAN : ConfirmDone(c, ok)
  \/ \E c \in TwoConns : RecvDisconnect(c)
  \/ \E t \in LogoutInputs : Logout(t)
  \/ \E d \in ClockSteps : AdvanceClock(d)

SpecAuth == Init /\ [][NextAuth]_vars

\* ------------------------------------------------------------ claims
\* the connection's task is between register_client and its return
Live(c) == pc[c] \in {"confirm", "recv"} \cup InHandler

\* the send_text calls made so far for the frame in hand, in order: the
\* ones that returned or raised and the one the handler is suspended in
Called(c) ==
  [ i \in 1..(Len(sent[c]) + 1) |->
      IF i <= Len(sent[c])
      THEN Send(sent[c][i].to, sent[c][i].frame)
      ELSE pend[c] ]

\* C1: the registry holds at most one entry per client id, and the entry of
\* an id holds the handle of the latest register_client call for that id.
C1_OneEntryLastWriter ==
  /\ \A i, j \in DOMAIN connected_clients :
       connected_clients[i].id = connected_clients[j].id => i = j
  /\ \A i \in DOMAIN connected_clients :
       connected_clients[i].websocket = lastReg[connected_clients[i].id]

\* two live connections registered "a", the second after the first, and
\* the one entry holds the second handle
C1_Witness ==
  /\ Live(1) /\ Live(2)
  /\ client_id[1] = "a" /\ client_id[2] = "a"
  /\ Len(connected_clients) = 1
  /\ connected_clients[1].id = "a"
  /\ connected_clients[1].websocket = 2

C4_SweepEvictsExactlyStale ==
  [][ sweepDue' # sweepDue =>
        \A i \in DOMAIN connected_clients :
          LET e == connected_clients[i]
          IN  IF now - e.last_heartbeat > 150
              THEN ~Contains(connected_clients', e.id)
              ELSE \E j \in DOMAIN connected_clients' :
                     connected_clients'[j] = e ]_vars

\* a tick at 300 has evicted connection 1 (silent since 0) and has kept
\* connection 2, whose last activity was 150 seconds old
C4_Witness ==
  /\ pc[1] = "recv" /\ pc[2] = "recv"
  /\ client_id[1] = "a" /\ client_id[2] = "b"
  /\ now = 300 /\ sweepDue = 300 + SWEEP_PERIOD
  /\ Len(connected_clients) = 1
  /\ connected_clients[1].id = "b"
  /\ connected_clients[1].last_heartbeat = 150

\* the frame in hand of c came from an agent and is an object
AgentFrame(c) ==
  /\ user_type[c] = "child"
  /\ pc[c] \in InHandler
  /\ cur[c].text.syntax = "object"

\* data.get('type', 'unknown') of the frame in hand
DataType(c) == Get(cur[c].text.type, "unknown")

\* the calls that carry a forwarded agent frame (a `from`) or a command
Forwards(c) ==
  { i \in DOMAIN Called(c) :
      \/ Called(c)[i].frame.from # Absent
      \/ Called(c)[i].frame.type = << "command" >> }

\* C5: a recognized non-heartbeat frame of an agent, with a controller
\* registered: exactly one forward is sent, to one handle, a controller's,
\* with the frame's kind and from = the sender's id, and once that send is
\* over the sender is sent the success acknowledgment '<kind>_ack'.
C5_OneForwardThenAck ==
  /\ [](\A c \in Conns :
          (AgentFrame(c) /\ DataType(c) \in KnownTypes /\ cur[c].parents # {})
          => /\ Cardinality(Forwards(c)) = 1
             /\ \A i \in Forwards(c) :
                  /\ Called(c)[i].to \in cur[c].parents
                  /\ Called(c)[i].frame.type = << DataType(c) >>
                  /\ Called(c)[i].frame.from = client_id[c]
             /\ pc[c] # "fwd" =>
                  \E i \in DOMAIN Called(c) :
                    Called(c)[i] = Send(c, AckFrame(DataType(c))))
  /\ [][\A c \in Conns :
          (AgentFrame(c) /\ pc[c] = "fwd" /\ pc'[c] # "fwd")
          => pc'[c] = "ack"]_vars

\* an agent's frame was forwarded while two controllers were registered,
\* and its acknowledgment is on its way
C5_Witness ==
  \E c \in Conns :
    /\ AgentFrame(c) /\ DataType(c) \in KnownTypes
    /\ Cardinality(cur[c].parents) = 2
    /\ pc[c] = "ack"
    /\ Len(sent[c]) = 1 /\ sent[c][1].ok
    /\ sent[c][1].to \in cur[c].parents

\* C6: a recognized non-heartbeat frame of an agent is answered with the
\* success acknowledgment '<kind>_ack' whether a controller is registered
\* or not, and also when the send to the controller raises.
C6_AlwaysSuccessAck ==
  /\ [](\A c \in Conns :
          (AgentFrame(c) /\ DataType(c) \in KnownTypes /\ pc[c] # "fwd")
          => \E i \in DOMAIN Called(c) :
               Called(c)[i] = Send(c, AckFrame(DataType(c))))
  /\ [][\A c \in Conns :
          (AgentFrame(c) /\ pc[c] = "fwd" /\ pc'[c] # "fwd")
          => /\ pc'[c] = "ack"
             /\ pend'[c] = Send(c, AckFrame(DataType(c)))]_vars

\* the send to the controller raised and the success acknowledgment is sent
C6_Witness ==
  \E c \in Conns :
    /\ AgentFrame(c) /\ DataType(c) \in KnownTypes
    /\ pc[c] = "ack"
    /\ Len(sent[c]) = 1 /\ ~sent[c][1].ok
    /\ pend[c] = Send(c, AckFrame(DataType(c)))

ControllerFrame(c) ==
  /\ user_type[c] = "parent"
  /\ pc[c] \in InHandler
  /\ cur[c].text.syntax = "object"

Command(c) == Get(cur[c].text.command, "unknown")
TargetChild(c) == Get(cur[c].text.target_child, "")

C9_NoTargetErrorOnly ==
  \A c \in Conns :
    (ControllerFrame(c) /\ cur[c].target = NoConn)
    => /\ pc[c] # "cmd"
       /\ Called(c)[1].frame.status = "error"
       /\ \A i \in DOMAIN Called(c) :
            /\ Called(c)[i].to = c
            /\ Called(c)[i].frame.status = "error"
       /\ Forwards(c) = {}

\* a controller named an id that is no key while another entry is there
\* to receive, and the error acknowledgment is being sent
C9_Witness ==
  \E c \in Conns :
    /\ ControllerFrame(c)
    /\ cur[c].text.target_child \in Ids
    /\ cur[c].target = NoConn
    /\ \E i \in DOMAIN connected_clients : connected_clients[i].websocket # c
    /\ pc[c] = "ack"
    /\ pend[c] = Send(c, TargetNotFoundFrame(TargetChild(c)))

\* the frame in hand is an agent's with a type that is neither heartbeat
\* nor recognized
UnknownFrame(c) ==
  AgentFrame(c) /\ DataType(c) \notin KnownTypes \cup {"heartbeat"}

MalformedFrame(c) ==
  /\ pc[c] \in InHandler
  /\ cur[c].text.syntax # "object"

\* the calls made to the sender's own handle that carry an acknowledgment
Acks(c) ==
  { i \in DOMAIN Called(c) : Called(c)[i].to = c /\ i \notin Forwards(c) }

C13_FailedForwardStaysLocal ==
  /\ [][\A c \in Conns :
          (pc[c] \in {"fwd", "cmd"} /\ pc'[c] # pc[c])
          => /\ pc'[c] \in {"ack", "errack"}
             /\ pend'[c].to = c
             /\ ~remCalled'[c]
             /\ connected_clients' = connected_clients]_vars
  /\ [][\A c \in Conns :
          (pc[c] \in InHandler /\ pc'[c] = "done")
          => /\ pc[c] = "errack"
             /\ pend[c].to = c
             /\ ~open[c]]_vars

\* a controller's command went to a handle whose connection had ended and
\* whose entry was gone by then; the send raised, the controller is still
\* registered under its handle and is being sent the error frame
C13_Witness ==
  \E c \in Conns :
    /\ ControllerFrame(c)
    /\ cur[c].target \notin {NoConn, c}
    /\ pc[c] = "errack"
    /\ Len(sent[c]) = 1 /\ ~sent[c][1].ok
    /\ sent[c][1].to = cur[c].target
    /\ pc[cur[c].target] = "done"
    /\ ~Contains(connected_clients, TargetChild(c))
    /\ Contains(connected_clients, client_id[c])
    /\ Lookup(connected_clients, client_id[c]).websocket = c

\* an entry as register_client writes it, with every field set
WholeEntry(e) ==
  /\ e.id \in Ids
  /\ e.websocket \in Conns
  /\ e.user_type \in {"parent", "child"}
  /\ e.last_heartbeat \in 0..now
  /\ e.connection_time \in 0..now

\* the sender's own id was no key when its frame arrived: the command names
\* the sender itself and the router found no entry for it
OwnIdAbsentOnArrival(c) ==
  /\ ControllerFrame(c)
  /\ cur[c].text.target_child = client_id[c]
  /\ cur[c].target = NoConn
  /\ pc[c] = "ack"
  /\ pend[c] = Send(c, TargetNotFoundFrame(client_id[c]))

C16_AbsentIdNoOp ==
  /\ [](\A id \in Ids :
          ~Contains(connected_clients, id)
          => /\ remove_client(connected_clients, id) = connected_clients
             /\ update_heartbeat(connected_clients, id, now)
                  = connected_clients)
  /\ [][\A c \in Conns :
          ( /\ \/ remCalled'[c] /\ ~remCalled[c]
               \/ pc[c] = "recv" /\ pc'[c] \in InHandler
            /\ ~Contains(connected_clients, client_id[c]) )
          => connected_clients' = connected_clients]_vars

\* connection 1 registered "a", connection 2 registered "a" after it,
\* connection 1 ended and its remove_client took the entry; no sweep has
\* run; a frame then arrived on connection 2 and update_heartbeat found no
\* key: the registry is as the removal left it
C16_Witness ==
  /\ sweepDue = SWEEP_PERIOD
  /\ pc[1] = "done" /\ remCalled[1]
  /\ OwnIdAbsentOnArrival(2)
  /\ client_id[2] = "a"
  /\ connected_clients = << >>

\* the first frame was an object whose token is missing, or is one that
\* verify_token rejects: revoked, badly signed, expired, or of no known user
Rejected(tok) ==
  \/ tok = NoToken
  \/ tok \in token_blacklist
  \/ ~tok.sig
  \/ now > tok.exp
  \/ verify_token(tok, token_blacklist, now) = NoUser

C18_SweepSnapshotSilent ==
  [][ sweepDue' # sweepDue =>
        LET dead == { connected_clients[i].id :
                        i \in { j \in DOMAIN connected_clients :
                                  now - connected_clients[j].last_heartbeat
                                    > HEARTBEAT_TIMEOUT } }
        IN  /\ connected_clients' =
                 SelectSeq(connected_clients, LAMBDA e : e.id \notin dead)
            /\ Keys(connected_clients) \ Keys(connected_clients') = dead
            /\ pend' = pend /\ sent' = sent
            /\ open' = open /\ pc' = pc /\ exit' = exit
            /\ remCalled' = remCalled ]_vars

\* the tick at 300 found two entries, both silent since 0, and evicted both
\* in one pass; both connections are open and wait for their next frame
C18_Witness ==
  /\ now = 300 /\ sweepDue = 300 + SWEEP_PERIOD
  /\ pc[1] = "recv" /\ pc[2] = "recv"
  /\ open[1] /\ open[2]
  /\ client_id[1] = "a" /\ client_id[2] = "b"
  /\ connected_clients = << >>

ArrivedUnregistered(c) ==
  /\ pc[c] \in InHandler
  /\ ~Contains(connected_clients, client_id[c])
  /\ Called(c)[1].frame.timestamp = isoformat(300)

\* C20: a frame arriving on a connection whose id is no key of the registry
\* is routed and acknowledged as any other: an agent's recognized frame
\* goes to the first controller and is acknowledged with '<kind>_ack', a
\* controller's command goes to its target and is acknowledged; and an id
\* that is no key only becomes one by the register_client of a handshake.
C20_UnregisteredSenderIsRouted ==
  /\ [](\A c \in Conns :
          (pc[c] \in InHandler /\ ~Contains(connected_clients, client_id[c]))
          => /\ ( AgentFrame(c) /\ DataType(c) \in KnownTypes
                    /\ cur[c].parents # {} )
                  => /\ Called(c)[1].to \in cur[c].parents
                     /\ Called(c)[1].frame.type = << DataType(c) >>
                     /\ Called(c)[1].frame.from = client_id[c]
                     /\ pc[c] # "fwd"
                          => Called(c)[2] = Send(c, AckFrame(DataType(c)))
             /\ ( AgentFrame(c) /\ DataType(c) = "heartbeat" )
                  => Called(c)[1] = Send(c, AckFrame("heartbeat"))
             /\ ( ControllerFrame(c) /\ cur[c].target # NoConn )
                  => /\ Called(c)[1].to = cur[c].target
                     /\ Called(c)[1].frame.type = << "command" >>
                     /\ (pc[c] # "cmd" /\ sent[c][1].ok)
                          => Called(c)[2] =
                               Send(c, CommandSentFrame(Command(c),
                                                        TargetChild(c))))
  /\ [][\A id \in Ids :
          (~Contains(connected_clients, id) /\ Contains(connected_clients', id))
          => \E c \in Conns :
               /\ pc[c] = "auth" /\ pc'[c] = "confirm"
               /\ client_id[c] = id
               /\ Lookup(connected_clients', id).websocket = c]_vars

\* the sweep at 300 evicted the agent "a", whose connection stayed open;
\* its camera frame then arrived, went to the controller "b" and is being
\* acknowledged, while "a" is still no key
C20_Witness ==
  /\ now = 300 /\ sweepDue = 300 + SWEEP_PERIOD
  /\ ArrivedUnregistered(1)
  /\ AgentFrame(1) /\ DataType(1) = "camera"
  /\ client_id[1] = "a" /\ client_id[2] = "b"
  /\ pc[1] = "ack" /\ pend[1] = Send(1, AckFrame("camera"))
  /\ Len(sent[1]) = 1 /\ sent[1][1].ok /\ sent[1][1].to = 2
  /\ pc[2] = "recv" /\ user_type[2] = "parent"
  /\ Len(connected_clients) = 1 /\ connected_clients[1].websocket = 2

====
